---- MODULE Spec2Model ----
(***************************************************************************)
(* TFA Dostmann 30.3215.02 radio sensor decoder (AVR).                     *)
(*                                                                         *)
(* Two contexts: the 50 us timer interrupt (tfa.c, ISR(TIMER0_COMPA_vect)) *)
(* that measures low pulses and frames packets, and the background loop    *)
(* (main.c, main) that reconciles the repetitions of a burst, parses the   *)
(* winning packet and keeps one slot per sensor channel.                   *)
(*                                                                         *)
(* The interrupt is modelled at the rising edge that ends a low pulse: the *)
(* only tick at which it changes anything but its pulse timer.  Bytes are  *)
(* numbers 0..255, buffers are functions over the C index range.           *)
(***************************************************************************)
EXTENDS Integers, Sequences, FiniteSets, TLC

\* ------------------------------------------------------------ constants
TFA_BITS == 36
TFA_BUF_BYTES == 5
TFA_PACKETS == 7
TFA_TYPE == 144
TFA_NEW_PACKETS == 1
TFA_NEW_PACKET == 2
TFA_SYNC == 64
TFA_LOW_BATT == 128
SENSOR_CHANNELS == 3
SYST_TALK == 1
SYST_HEAD == 2
\* sensors[k].id = 0xFF: channel not locked to a sensor
ID_NONE == 255
\* saturation value of the uint8_t pulse timer
TIMER_MAX == 255

\* timing, in microseconds (tfa.h gives seconds)
F_CPU_MHZ == 8
TFA_TICK_US == 50
TFA_T_SHORT_US == 1800
TFA_T_LONG_US == 3600
TFA_T_START_US == 5000
TFA_T_GAP_US == 10000
TFA_T_GLITCH_US == 200
TFA_T_MID_US == (TFA_T_SHORT_US + TFA_T_LONG_US) \div 2
TFA_T_STOP_US == (3 * TFA_T_SHORT_US) \div 4
TFA_TIMER == ((TFA_TICK_US * F_CPU_MHZ) \div 8) - 1
TFA_TICK_REAL_US == (8 * (TFA_TIMER + 1)) \div F_CPU_MHZ

\* decision macros: ticks compared with threshold/TFA_TICK_REAL
TFA_IS_GLITCH(ticks) == ticks * TFA_TICK_REAL_US < TFA_T_GLITCH_US
TFA_IS_STOP(ticks) == ticks * TFA_TICK_REAL_US < TFA_T_STOP_US
TFA_IS_HIGH(ticks) == ticks * TFA_TICK_REAL_US >= TFA_T_MID_US
TFA_IS_START(ticks) == ticks * TFA_TICK_REAL_US > TFA_T_START_US
TFA_IS_GAP(ticks) == ticks * TFA_TICK_REAL_US > TFA_T_GAP_US

\* ------------------------------------------------------------ bytes and bits
Pow2(n) == 2 ^ n
BitAt(x, i) == (x \div Pow2(i)) % 2
\* *byte = *byte & ~bit; if(data) *byte |= bit;
PutBit(byte, i, v) == byte - BitAt(byte, i) * Pow2(i) + v * Pow2(i)
\* flag masks are single bits
HasFlag(f, mask) == (f \div mask) % 2 = 1
SetFlag(f, mask) == IF HasFlag(f, mask) THEN f ELSE f + mask
ClrFlag(f, mask) == IF HasFlag(f, mask) THEN f - mask ELSE f

ByteIdx == 0 .. (TFA_BUF_BYTES - 1)
SlotIdx == 0 .. (TFA_PACKETS - 1)
FillPacket(b) == [i \in ByteIdx |-> b]
FillBuf(b) == [k \in SlotIdx |-> FillPacket(b)]

\* ------------------------------------------------------------ interrupt
(* The receiver state is the record s:                                     *)
(*   tfa_buf, tfa_buf_bit, tfa_buf_packet  the statics of the ISR          *)
(*   tfa                                   the TTFA struct behind p_tfa    *)

\* faulty variant: the glitch leaves the countdown at "all bits received"
GlitchPulseArmed(s) == [s EXCEPT !.tfa_buf_bit = 0]

\* glitch pulse - reject
GlitchPulse(s) == [s EXCEPT !.tfa_buf_bit = -1]

\* faulty variant: the index does not saturate
StopBitNoCap(s) ==
    IF s.tfa_buf_bit = 0
    THEN [s EXCEPT !.tfa_buf_bit = @ - 1, !.tfa_buf_packet = @ + 1]
    ELSE s

\* stop bit - packet end: a full packet is counted when the countdown is 0
StopBit(s) ==
    IF s.tfa_buf_bit = 0
    THEN [s EXCEPT !.tfa_buf_bit = @ - 1,
                   !.tfa_buf_packet = IF @ < TFA_PACKETS + 1 THEN @ + 1 ELSE @]
    ELSE s

\* faulty variant: the count of the burst is not handed over
PublishNoCount(tfa, tfa_buf, tfa_buf_packet) ==
    [tfa EXCEPT !.data = tfa_buf,
                !.flags = SetFlag(@, TFA_NEW_PACKETS)]

\* memcpy of all slots, packets, flags |= TFA_NEW_PACKETS
Publish(tfa, tfa_buf, tfa_buf_packet) ==
    [tfa EXCEPT !.data = tfa_buf,
                !.packets = tfa_buf_packet,
                !.flags = SetFlag(@, TFA_NEW_PACKETS)]

\* faulty variant: no minimum number of repetitions
EndOfTransmissionNoMin(s) ==
    LET copied == IF s.tfa_buf_packet <= TFA_PACKETS
                  THEN Publish(s.tfa, s.tfa_buf, s.tfa_buf_packet)
                  ELSE s.tfa
    IN  [s EXCEPT !.tfa = copied, !.tfa_buf_packet = 0]

\* faulty variant: a burst of more than 7 repetitions is handed over as 7
EndOfTransmissionClamped(s) ==
    LET n == IF s.tfa_buf_packet > TFA_PACKETS THEN TFA_PACKETS ELSE s.tfa_buf_packet
        copied == IF n >= 3
                  THEN Publish(s.tfa, s.tfa_buf, n)
                  ELSE s.tfa
    IN  [s EXCEPT !.tfa = copied, !.tfa_buf_packet = 0]

\* end of transmission: copy data to destination buffer, restart receiver
EndOfTransmission(s) ==
    LET copied == IF s.tfa_buf_packet >= 3 /\ s.tfa_buf_packet <= TFA_PACKETS
                  THEN Publish(s.tfa, s.tfa_buf, s.tfa_buf_packet)
                  ELSE s.tfa
    IN  [s EXCEPT !.tfa = copied, !.tfa_buf_packet = 0]

\* faulty variant: the last byte keeps what an earlier burst left in it
StartBitNoClear(s) == [s EXCEPT !.tfa_buf_bit = TFA_BITS]

\* start bit: countdown to TFA_BITS, clear last unfull byte of packet
StartBit(s) ==
    [s EXCEPT !.tfa_buf_bit = TFA_BITS,
              !.tfa_buf = IF s.tfa_buf_packet < TFA_PACKETS
                          THEN [@ EXCEPT ![s.tfa_buf_packet][TFA_BUF_BYTES - 1] = 0]
                          ELSE @]

\* faulty variant: a high bit is or-ed in, a low bit leaves the old bit in place
DataBitOrOnly(s, data) ==
    IF s.tfa_buf_bit > 0 /\ s.tfa_buf_packet < TFA_PACKETS
    THEN LET b == s.tfa_buf_bit - 1
         IN  [s EXCEPT !.tfa_buf_bit = b,
                       !.tfa_buf[s.tfa_buf_packet][b \div 8] =
                           IF data = 1 THEN PutBit(@, b % 8, 1) ELSE @]
    ELSE IF s.tfa_buf_bit >= 0
         THEN [s EXCEPT !.tfa_buf_bit = @ - 1]
         ELSE s

\* data bit - place to buffer, highest bit index first
DataBit(s, data) ==
    IF s.tfa_buf_bit > 0 /\ s.tfa_buf_packet < TFA_PACKETS
    THEN LET b == s.tfa_buf_bit - 1
         IN  [s EXCEPT !.tfa_buf_bit = b,
                       !.tfa_buf[s.tfa_buf_packet][b \div 8] = PutBit(@, b % 8, data)]
    ELSE IF s.tfa_buf_bit >= 0
         THEN [s EXCEPT !.tfa_buf_bit = @ - 1]
         ELSE s

\* pulse end: decode (the else-if chain at the rising edge)
\* faulty variant: the timer wraps like any uint8_t
TimerTickWrap(t) == (t + 1) % (TIMER_MAX + 1)

\* if(tfa_timer < 255) tfa_timer++;
TimerTick(t) == IF t < TIMER_MAX THEN t + 1 ELSE t

\* faulty variant: the start test comes before the gap test
ISR_RiseStartFirst(s, ticks) ==
    IF TFA_IS_GLITCH(ticks) THEN GlitchPulse(s)
    ELSE IF TFA_IS_STOP(ticks) THEN StopBit(s)
    ELSE IF TFA_IS_START(ticks) THEN StartBit(s)
    ELSE IF TFA_IS_GAP(ticks) THEN EndOfTransmission(s)
    ELSE DataBit(s, IF TFA_IS_HIGH(ticks) THEN 1 ELSE 0)

\* else-if chain at the rising edge: glitch, stop, gap, start, data
ISR_Rise(s, ticks) ==
    IF TFA_IS_GLITCH(ticks) THEN GlitchPulse(s)
    ELSE IF TFA_IS_STOP(ticks) THEN StopBit(s)
    ELSE IF TFA_IS_GAP(ticks) THEN EndOfTransmission(s)
    ELSE IF TFA_IS_START(ticks) THEN StartBit(s)
    ELSE DataBit(s, IF TFA_IS_HIGH(ticks) THEN 1 ELSE 0)

\* ------------------------------------------------------------ reconciler
\* faulty variant: the index of the packet with maximum repetitions is not recorded
ComparePairNoMaxid(c, buf, m, n) ==
    IF c.counts[n] = 0 /\ buf[m] = buf[n]
    THEN LET cm == c.counts[m] + 1
             c1 == [c EXCEPT !.counts[m] = cm]
             c2 == IF cm > c1.maxv0
                   THEN [c1 EXCEPT !.maxv1 = c1.maxv0, !.maxv0 = cm]
                   ELSE c1
         IN  IF c2.counts[n] # 0 THEN [c2 EXCEPT !.counts[n] = -1] ELSE c2
    ELSE c

\* inner loop body of tfa_proc_packets for one pair (m, n)
ComparePair(c, buf, m, n) ==
    IF c.counts[n] = 0 /\ buf[m] = buf[n]
    THEN LET cm == c.counts[m] + 1
             c1 == [c EXCEPT !.counts[m] = cm]
             c2 == IF cm > c1.maxv0
                   THEN [c1 EXCEPT !.maxv1 = c1.maxv0, !.maxv0 = cm, !.maxid = m]
                   ELSE c1
         IN  IF c2.counts[n] # 0 THEN [c2 EXCEPT !.counts[n] = -1] ELSE c2
    ELSE c

RECURSIVE InnerLoop(_, _, _, _, _)
InnerLoop(c, buf, packets, m, n) ==
    IF n >= packets THEN c
    ELSE InnerLoop(ComparePair(c, buf, m, n), buf, packets, m, n + 1)

RECURSIVE OuterLoop(_, _, _, _)
OuterLoop(c, buf, packets, m) ==
    IF m >= packets THEN c
    ELSE IF c.counts[m] # 0 THEN OuterLoop(c, buf, packets, m + 1)
    ELSE OuterLoop(InnerLoop(c, buf, packets, m, 0), buf, packets, m + 1)

\* go through all received packets and find the one with most repetitions
MostCommon(buf, packets) ==
    OuterLoop([counts |-> [k \in SlotIdx |-> 0], maxv0 |-> 0, maxv1 |-> 0, maxid |-> 0],
              buf, packets, 0)

\* the part of tfa_proc_packets after the atomic copy: the new TTFA and the
\* return value
SelectPacket(tfa, buf, packets) ==
    LET c == MostCommon(buf, packets)
    IN  IF c.maxv0 = c.maxv1
        THEN [tfa |-> tfa, ret |-> 0]
        ELSE [tfa |-> [tfa EXCEPT !.packet = buf[c.maxid],
                                  !.flags = SetFlag(@, TFA_NEW_PACKET)],
              ret |-> 1]

\* ------------------------------------------------------------ parser
\* faulty variant: the sign bit is not replicated
SignExtend12Unsigned(raw) == raw

\* 12-bit two's complement to int16_t; the float is kept as tenths of a degree
SignExtend12(raw) ==
    LET temp == IF BitAt(raw, 11) = 1 THEN raw + 61440 ELSE raw
    IN  IF temp >= 32768 THEN temp - 65536 ELSE temp

\* parse packet data to sensor struct
tfa_parse(packet) ==
    [id |-> packet[3] % 16,
     channel |-> 1 + ((packet[2] \div 16) % 4),
     temp |-> SignExtend12((packet[1] + 256 * packet[2]) % 4096),
     rh |-> packet[0],
     type |-> ((packet[3] + 256 * packet[4]) \div 16) % 256,
     flags |-> TFA_NEW_PACKET + (packet[2] \div 64) * 64]

\* faulty variant: the type is not compared
type_okAny(sensor) == TRUE

type_ok(sensor) == sensor.type = TFA_TYPE

\* ------------------------------------------------------------ report
\* print sensor data: the fields of the line, with or without headers
tfa_print_sensor(sy, sensor) ==
    [kind |-> "sensor", head |-> HasFlag(sy.flags, SYST_HEAD),
     id |-> sensor.id, chn |-> sensor.channel, t |-> sensor.temp, rh |-> sensor.rh,
     batt |-> IF HasFlag(sensor.flags, TFA_LOW_BATT) THEN 1 ELSE 0,
     sync |-> IF HasFlag(sensor.flags, TFA_SYNC) THEN 1 ELSE 0]

\* ------------------------------------------------------------ channel slots
\* faulty variant: the identity of the slot is not compared
UpdateChannelAnyId(chans, sensor) ==
    IF sensor.channel > 0 /\ sensor.channel <= SENSOR_CHANNELS
    THEN [chans EXCEPT ![sensor.channel] = sensor]
    ELSE chans

\* faulty variant: a channel above 3 is folded back onto the three slots
UpdateChannelFolded(chans, sensor) ==
    LET c == ((sensor.channel - 1) % SENSOR_CHANNELS) + 1
    IN  IF chans[c].id = ID_NONE \/ chans[c].id = sensor.id
        THEN [chans EXCEPT ![c] = sensor]
        ELSE chans

\* copy new sensor data to channel if ID match or not yet assigned ID (sync mode)
UpdateChannel(chans, sensor) ==
    IF sensor.channel > 0 /\ sensor.channel <= SENSOR_CHANNELS
    THEN IF chans[sensor.channel].id = ID_NONE \/ chans[sensor.channel].id = sensor.id
         THEN [chans EXCEPT ![sensor.channel] = sensor]
         ELSE chans
    ELSE chans

\* faulty variant: the slot is marked as holding no data as well
SyncChannelsNoData(chans, chn) ==
    IF chn = 0
    THEN [k \in DOMAIN chans |-> [chans[k] EXCEPT !.id = ID_NONE, !.flags = 0]]
    ELSE [chans EXCEPT ![chn].id = ID_NONE, ![chn].flags = 0]

\* TFA:SYNC <channel>: chn = 0 is the command without a parameter
SyncChannels(chans, chn) ==
    IF chn = 0
    THEN [k \in DOMAIN chans |-> [chans[k] EXCEPT !.id = ID_NONE]]
    ELSE [chans EXCEPT ![chn].id = ID_NONE]

\* ------------------------------------------------------------ the sensor
\* tfa.c:14-21: 36 bits, bit 0 first on the air: type, identity, battery low,
\* sync, channel, temperature, humidity; each field most significant bit first
MSBits(v, n) == [i \in 1 .. n |-> BitAt(v, n - i)]
SensorBits(r) ==
    MSBits(r.type, 8) \o MSBits(r.id, 4) \o <<r.batt, r.sync>>
        \o MSBits(r.channel - 1, 2) \o MSBits(r.temp % 4096, 12) \o MSBits(r.rh, 8)

\* low-pulse lengths in ticks: the shortest and the longest of each kind
TicksOf(us) == us \div TFA_TICK_REAL_US
GlitchDur == {0, TicksOf(TFA_T_GLITCH_US) - 1}
StopDur == {TicksOf(TFA_T_GLITCH_US), TicksOf(TFA_T_STOP_US) - 1}
DataDur(bit) == IF bit = 1
                THEN {TicksOf(TFA_T_MID_US), TicksOf(TFA_T_START_US)}
                ELSE {TicksOf(TFA_T_STOP_US), TicksOf(TFA_T_MID_US) - 1}
StartDur == {TicksOf(TFA_T_START_US) + 1, TicksOf(TFA_T_GAP_US)}
GapDur == {TicksOf(TFA_T_GAP_US) + 1, TIMER_MAX}

\* the pulse lengths the sensor sends (tfa.c:8-9)
TFA_T_START_NOM_US == 8000
TFA_T_STOP_NOM_US == 500
DataTicks(bit) == IF bit = 1 THEN TicksOf(TFA_T_LONG_US) ELSE TicksOf(TFA_T_SHORT_US)

\* the interrupt run over a sequence of data pulses
RECURSIVE FeedBits(_, _, _)
FeedBits(s, bits, k) ==
    IF k > Len(bits) THEN s
    ELSE LET t == ISR_Rise(s, DataTicks(bits[k]))
         IN  \* the countdown is read first so that each pulse is evaluated in turn
             IF t.tfa_buf_bit >= -1 THEN FeedBits(t, bits, k + 1) ELSE t

\* start pulse, the 36 data pulses of the reading, stop pulse
Repetition(s, r) ==
    ISR_Rise(FeedBits(ISR_Rise(s, TicksOf(TFA_T_START_NOM_US)), SensorBits(r), 1),
             TicksOf(TFA_T_STOP_NOM_US))

RECURSIVE Repetitions(_, _, _)
Repetitions(s, r, n) ==
    IF n = 0 THEN s
    ELSE LET t == Repetition(s, r)
         IN  IF t.tfa_buf_bit >= -1 THEN Repetitions(t, r, n - 1) ELSE t

\* ------------------------------------------------------------ state
VARIABLES
    tfa_old,          \* ISR static: the line as sampled at the last tick (0 low, 1 high)
    tfa_timer,        \* ISR static: low-pulse duration timer (uint8_t)
    tfa_buf,          \* ISR static: packets of the burst being received
    tfa_buf_bit,      \* ISR static: bit countdown (int8_t)
    tfa_buf_packet,   \* ISR static: repetition index
    tfa,              \* TTFA tfa of main, shared through p_tfa
    sensors,          \* TSensor sensors[3], indexed by channel 1..3
    syst,             \* TSystem syst
    pc,               \* position of the background loop
    buf,              \* tfa_proc_packets: private copy of the captures
    packets,          \* tfa_proc_packets: private copy of the count
    cmd,              \* the command line serial_decode finds in the receive buffer
    tx,               \* the UART output: the last line sent, n flips with every line
    env,              \* the transmitter and the noise (not program state)
    obs               \* observation counters (not program state)

isrVars == <<tfa_old, tfa_timer, tfa_buf, tfa_buf_bit, tfa_buf_packet>>
mainVars == <<sensors, syst, pc, buf, packets, cmd, tx>>
vars == <<tfa_old, tfa_timer, tfa_buf, tfa_buf_bit, tfa_buf_packet, tfa, sensors, syst,
          pc, buf, packets, cmd, tx, env, obs>>

\* bounds of the environment
MaxBursts == 2
MaxOdd == 2
MaxStray == 1
MaxFrames == 1
MaxCmdBursts == 2
MaxLow == 520

\* values an uninitialised byte of the stack frame of main may hold
UninitFill == {0, 255}

\* readings on the air: one sensor and a second unit on the same channel
ReadingG == [id |-> 9, channel |-> 2, temp |-> 237, rh |-> 45, type |-> TFA_TYPE,
             sync |-> 0, batt |-> 0]
ReadingH == [id |-> 3, channel |-> 2, temp |-> -8, rh |-> 60, type |-> TFA_TYPE,
             sync |-> 1, batt |-> 1]
Senders == {ReadingG, ReadingH}

\* a repetition damaged on the air: a humidity bit or an identity bit flipped
Corrupted(r) == {[r EXCEPT !.rh = PutBit(@, 1, 1 - BitAt(@, 1))],
                 [r EXCEPT !.id = PutBit(@, 0, 1 - BitAt(@, 0))]}

\* nothing has been sent yet
NoLine == [kind |-> "none"]
NoTx == [n |-> 0, line |-> NoLine]
\* serial_tx_str: one more line on the UART (NoLine: nothing is sent)
Send(t, line) == IF line = NoLine THEN t ELSE [n |-> 1 - t.n, line |-> line]

\* no command line is waiting: serial_decode leaves an empty command
NoCmd == [name |-> "", chn |-> 0]

\* locals of tfa_proc_packets outside the call
NoBuf == FillBuf(0)

Receiver == [tfa_buf |-> tfa_buf, tfa_buf_bit |-> tfa_buf_bit,
             tfa_buf_packet |-> tfa_buf_packet, tfa |-> tfa]

\* the receiver after the interrupt ran
SetReceiver(s) ==
    /\ tfa_buf' = s.tfa_buf
    /\ tfa_buf_bit' = s.tfa_buf_bit
    /\ tfa_buf_packet' = s.tfa_buf_packet
    /\ tfa' = s.tfa

\* the statics of the ISR (tfa.c:92-94) and the TTFA after tfa_init: only the
\* flags are set, the rest of the struct is what the stack held
InitReceiver(g) ==
    [tfa_buf |-> FillBuf(0), tfa_buf_bit |-> 0, tfa_buf_packet |-> 0,
     tfa |-> [data |-> FillBuf(g), packets |-> g, packet |-> FillPacket(g), flags |-> 0]]

\* main.c:96-104: only id and flags of the slots are set
InitMain(g) ==
    /\ sensors = [k \in 1 .. SENSOR_CHANNELS |->
                    [id |-> ID_NONE, channel |-> g, temp |-> g, rh |-> g, type |-> g,
                     flags |-> 0]]
    /\ syst = [packets |-> 0, flags |-> SYST_TALK + SYST_HEAD]
    /\ pc = "idle"
    /\ buf = NoBuf
    /\ packets = 0
    /\ cmd = NoCmd
    /\ tx = NoTx
    /\ obs = [pub |-> 0, cop |-> 0, rec |-> 0, last |-> <<>>, rst |-> FALSE]

\* the statics of the sampling part of the ISR (tfa.c:76, tfa.c:90)
Sampled(old, timer) == tfa_old = old /\ tfa_timer = timer
\* the line was low for d ticks and the tick of the rising edge has run
AfterRise(d) == tfa_old' = 1 /\ tfa_timer' = TimerTick(d)

StartWith(s) ==
    /\ tfa_buf = s.tfa_buf
    /\ tfa_buf_bit = s.tfa_buf_bit
    /\ tfa_buf_packet = s.tfa_buf_packet
    /\ tfa = s.tfa

\* the transmitter: the reading of the current burst, the bursts and the damaged
\* repetitions sent and how many of each it may send; for the pulse-level runs
\* the data pulses of the reading sent (k: -1 before the first start pulse, 37
\* after the stop pulse), the data bits received since the last start pulse,
\* whether nothing but data pulses and the closing stop pulse came since,
\* whether a glitch came since, the noise pulses and frames so far, and the
\* length in ticks of the last pulse; for the tick-level runs the ticks the
\* line has been low and whether the last pulse was longer than the timer's range
Transmitter(p, bursts, odd) ==
    [p |-> p, bursts |-> 0, odd |-> 0, maxbursts |-> bursts, maxodd |-> odd,
     k |-> -1, bits |-> <<>>, clean |-> FALSE, glitched |-> FALSE,
     stray |-> 0, frames |-> 0, d |-> 0, low |-> 0, long |-> FALSE]

\* several bursts of intact repetitions
Init ==
    /\ \E g \in UninitFill : StartWith(InitReceiver(g)) /\ Sampled(0, 0) /\ InitMain(g)
    /\ \E p \in Senders : env = Transmitter(p, MaxBursts, 0)

\* one burst window, with damaged repetitions
InitE2E ==
    /\ \E g \in UninitFill : StartWith(InitReceiver(g)) /\ Sampled(0, 0) /\ InitMain(g)
    /\ \E p \in Senders : env = Transmitter(p, 1, MaxOdd)

\* ------------------------------------------------------------ interrupt steps
\* one rising edge with the pulse timer at d
Rise(d) == SetReceiver(ISR_Rise(Receiver, d)) /\ AfterRise(d)

\* a publication as seen from outside: counted, and remembered
ObserveGap ==
    obs' = IF tfa_buf_packet >= 3 /\ tfa_buf_packet <= TFA_PACKETS
           THEN [obs EXCEPT !.pub = @ + 1, !.last = <<tfa_buf, tfa_buf_packet>>]
           ELSE obs

\* one repetition of the burst's reading arrives, intact or damaged
RxRepetition ==
    /\ env.bursts < env.maxbursts
    /\ \E q \in {env.p} \cup Corrupted(env.p) :
         /\ q = env.p \/ env.odd < env.maxodd
         /\ SetReceiver(Repetition(Receiver, q))
         /\ AfterRise(TicksOf(TFA_T_STOP_NOM_US))
         /\ env' = [env EXCEPT !.odd = IF q = env.p THEN @ ELSE @ + 1]
    /\ UNCHANGED <<mainVars, obs>>

\* the long pause after a burst; the next burst is from either sender
RxGap ==
    /\ env.bursts < env.maxbursts
    /\ Rise(TIMER_MAX)
    /\ \E p \in Senders : env' = [env EXCEPT !.p = p, !.bursts = @ + 1, !.odd = 0]
    /\ ObserveGap
    /\ UNCHANGED mainVars

\* ------------------------------------------------------------ background loop
\* if(!(tfa->flags & TFA_NEW_PACKETS)) return(0);
ProcCheck ==
    /\ pc = "idle"
    /\ pc' = IF HasFlag(tfa.flags, TFA_NEW_PACKETS) THEN "copy" ELSE "idle"
    /\ UNCHANGED <<isrVars, tfa, sensors, syst, buf, packets, cmd, tx, env, obs>>

\* faulty variant: TFA_NEW_PACKETS is left set
AtomicCopyKeepFlag(t) == [buf |-> t.data, packets |-> t.packets, tfa |-> t]

\* faulty variant: the count is not copied
AtomicCopyNoCount(t) ==
    [buf |-> t.data, packets |-> 0,
     tfa |-> [t EXCEPT !.flags = ClrFlag(@, TFA_NEW_PACKETS)]]

\* the ATOMIC_BLOCK: copy the captures and the count, clear TFA_NEW_PACKETS
AtomicCopy(t) ==
    [buf |-> t.data, packets |-> t.packets,
     tfa |-> [t EXCEPT !.flags = ClrFlag(@, TFA_NEW_PACKETS)]]

ProcCopy ==
    /\ pc = "copy"
    /\ LET c == AtomicCopy(tfa)
       IN  /\ buf' = c.buf
           /\ packets' = c.packets
           /\ tfa' = c.tfa
    /\ pc' = "vote"
    /\ obs' = [obs EXCEPT !.cop = @ + 1]
    /\ UNCHANGED <<isrVars, sensors, syst, cmd, tx, env>>

\* the vote, the copy of the winner and TFA_NEW_PACKET; the locals die
ProcVote ==
    /\ pc = "vote"
    /\ LET r == SelectPacket(tfa, buf, packets)
       IN  /\ tfa' = r.tfa
           /\ pc' = IF r.ret = 1 THEN "decode" ELSE "idle"
           /\ obs' = [obs EXCEPT !.rec = @ + r.ret]
    /\ buf' = NoBuf
    /\ packets' = 0
    /\ UNCHANGED <<isrVars, sensors, syst, cmd, tx, env>>

\* faulty variant: the reading is stored but not counted
AcceptNoCount(t, chans, sy) ==
    LET sensor == tfa_parse(t.packet)
    IN  IF type_ok(sensor)
        THEN [tfa |-> IF HasFlag(sy.flags, SYST_TALK)
                      THEN [t EXCEPT !.flags = ClrFlag(@, TFA_NEW_PACKET)]
                      ELSE t,
              sensors |-> UpdateChannel(chans, sensor),
              syst |-> sy,
              line |-> IF HasFlag(sy.flags, SYST_TALK)
                       THEN tfa_print_sensor(sy, sensor) ELSE NoLine]
        ELSE [tfa |-> t, sensors |-> chans, syst |-> sy, line |-> NoLine]

\* faulty variant: the reading is counted but not stored
AcceptNoUpdate(t, chans, sy) ==
    LET sensor == tfa_parse(t.packet)
    IN  IF type_ok(sensor)
        THEN [tfa |-> IF HasFlag(sy.flags, SYST_TALK)
                      THEN [t EXCEPT !.flags = ClrFlag(@, TFA_NEW_PACKET)]
                      ELSE t,
              sensors |-> chans,
              syst |-> [sy EXCEPT !.packets = (@ + 1) % 65536],
              line |-> IF HasFlag(sy.flags, SYST_TALK)
                       THEN tfa_print_sensor(sy, sensor) ELSE NoLine]
        ELSE [tfa |-> t, sensors |-> chans, syst |-> sy, line |-> NoLine]

\* faulty variant: the reading is counted only when a slot took it
AcceptCountsStored(t, chans, sy) ==
    LET sensor == tfa_parse(t.packet)
    IN  IF type_ok(sensor)
        THEN [tfa |-> IF HasFlag(sy.flags, SYST_TALK)
                      THEN [t EXCEPT !.flags = ClrFlag(@, TFA_NEW_PACKET)]
                      ELSE t,
              sensors |-> UpdateChannel(chans, sensor),
              syst |-> IF UpdateChannel(chans, sensor) = chans
                       THEN sy
                       ELSE [sy EXCEPT !.packets = (@ + 1) % 65536],
              line |-> IF HasFlag(sy.flags, SYST_TALK)
                       THEN tfa_print_sensor(sy, sensor) ELSE NoLine]
        ELSE [tfa |-> t, sensors |-> chans, syst |-> sy, line |-> NoLine]

\* new packet received: decode (main.c, the body of if(tfa_proc_packets(&tfa)))
Accept(t, chans, sy) ==
    LET sensor == tfa_parse(t.packet)
    IN  IF type_ok(sensor)
        THEN [tfa |-> IF HasFlag(sy.flags, SYST_TALK)
                      THEN [t EXCEPT !.flags = ClrFlag(@, TFA_NEW_PACKET)]
                      ELSE t,
              sensors |-> UpdateChannel(chans, sensor),
              syst |-> [sy EXCEPT !.packets = (@ + 1) % 65536],
              line |-> IF HasFlag(sy.flags, SYST_TALK)
                       THEN tfa_print_sensor(sy, sensor) ELSE NoLine]
        ELSE [tfa |-> t, sensors |-> chans, syst |-> sy, line |-> NoLine]

Decode ==
    /\ pc = "decode"
    /\ LET a == Accept(tfa, sensors, syst)
       IN  /\ tfa' = a.tfa
           /\ sensors' = a.sensors
           /\ syst' = a.syst
           /\ tx' = Send(tx, a.line)
    /\ pc' = "idle"
    /\ UNCHANGED <<isrVars, buf, packets, cmd, env, obs>>

\* a command line has arrived over the UART: TFA:SYNC without a channel
\* (chn 0) or with channel 1..3.  The loop looks at the receive buffer only at
\* its top, so the line is taken to arrive there.
SerialRx ==
    /\ pc = "idle"
    /\ cmd = NoCmd
    /\ \E chn \in 0 .. SENSOR_CHANNELS : cmd' = [name |-> "TFA:SYNC", chn |-> chn]
    /\ UNCHANGED <<isrVars, tfa, sensors, syst, pc, buf, packets, tx, env, obs>>

\* TFA:SYNC [<channel>]
CmdSync ==
    /\ pc = "idle"
    /\ cmd.name = "TFA:SYNC"
    /\ sensors' = SyncChannels(sensors, cmd.chn)
    /\ cmd' = NoCmd
    /\ UNCHANGED <<isrVars, tfa, syst, pc, buf, packets, tx, env, obs>>

Next ==
    \/ RxRepetition \/ RxGap
    \/ ProcCheck \/ ProcCopy \/ ProcVote \/ Decode
    \/ SerialRx \/ CmdSync

Spec == Init /\ [][Next]_vars
SpecE2E == InitE2E /\ [][Next]_vars

\* ------------------------------------------------------------ reconciler runs
\* a reading laid out in the five packet bytes
Encode(r) ==
    LET raw == r.temp % 4096
    IN  [i \in ByteIdx |->
            CASE i = 0 -> r.rh
              [] i = 1 -> raw % 256
              [] i = 2 -> (raw \div 256) + 16 * (r.channel - 1) + r.sync * TFA_SYNC
                          + r.batt * TFA_LOW_BATT
              [] i = 3 -> r.id + 16 * (r.type % 16)
              [] i = 4 -> r.type \div 16]

PacketG == Encode(ReadingG)
PacketH == Encode(ReadingH)
PacketX == Encode([ReadingG EXCEPT !.rh = 47])
VotePool == {PacketG, PacketH, PacketX}

\* the capture sets of n repetitions; the slots behind them hold an old burst
CaptureSets(n) ==
    {[k \in SlotIdx |-> IF k < n THEN f[k] ELSE PacketH] : f \in [0 .. (n - 1) -> VotePool]}

\* a burst of 3..7 repetitions has just been published; an older reconciled
\* packet may still be unread
InitVote ==
    /\ \E g \in UninitFill, n \in 3 .. TFA_PACKETS, fresh \in {0, TFA_NEW_PACKET} :
         \E d \in CaptureSets(n) :
            /\ StartWith([tfa_buf |-> d, tfa_buf_bit |-> -1, tfa_buf_packet |-> 0,
                          tfa |-> [data |-> d, packets |-> n, packet |-> FillPacket(g),
                                   flags |-> TFA_NEW_PACKETS + fresh]])
            /\ Sampled(1, TIMER_MAX)
            /\ InitMain(g)
    /\ env = Transmitter(ReadingG, 0, 0)

NextVote == ProcCheck \/ ProcCopy \/ ProcVote \/ Decode

SpecVote == InitVote /\ [][NextVote]_vars

\* groups of byte-identical captures among the first n
GroupSize(b, n, i) == Cardinality({j \in 0 .. (n - 1) : b[j] = b[i]})
MaxGroup(b, n) == CHOOSE v \in 0 .. n :
                     /\ \A i \in 0 .. (n - 1) : GroupSize(b, n, i) <= v
                     /\ n > 0 => \E i \in 0 .. (n - 1) : GroupSize(b, n, i) = v
Largest(b, n) == {b[i] : i \in {j \in 0 .. (n - 1) : GroupSize(b, n, j) = MaxGroup(b, n)}}

\* the step of the background loop that votes
VoteStep == pc = "vote" /\ pc' # "vote"

\* C1: a capture set of 3..7 captures with a unique largest group makes the
\* reconciler select the bytes of that group and set TFA_NEW_PACKET
C1_UniqueLargestSelected ==
    [][(VoteStep /\ packets \in 3 .. TFA_PACKETS /\ Cardinality(Largest(buf, packets)) = 1)
        => /\ pc' = "decode"
           /\ tfa'.packet \in Largest(buf, packets)
           /\ HasFlag(tfa'.flags, TFA_NEW_PACKET)]_vars

\* C2: when the largest and the second largest group have the same size the
\* reconciler returns 0 and leaves the reconciled packet and the flags alone
C2_TieRejected ==
    [][(VoteStep /\ Cardinality(Largest(buf, packets)) >= 2)
        => /\ pc' = "idle"
           /\ tfa' = tfa]_vars

\* C3: with 7 captures of which at least 4 are identical, the reconciler selects
\* the bytes of those, wherever they are in the set
C3_MajorityOfSeven ==
    [][(VoteStep /\ packets = TFA_PACKETS /\ MaxGroup(buf, packets) >= 4)
        => /\ pc' = "decode"
           /\ tfa'.packet \in Largest(buf, packets)
           /\ HasFlag(tfa'.flags, TFA_NEW_PACKET)]_vars

\* a majority of exactly 4 that does not hold the first slot has won
C3_Witness ==
    /\ pc = "decode"
    /\ tfa.packets = TFA_PACKETS
    /\ MaxGroup(tfa.data, TFA_PACKETS) = 4
    /\ tfa.packet \in Largest(tfa.data, TFA_PACKETS)
    /\ tfa.data[0] # tfa.packet
    /\ tfa.data[6] # tfa.packet

\* ------------------------------------------------------------ command runs
\* the SCPI commands that touch the decoder; chn is the parameter: the state
\* for TFA:TALK and TFA:HEAD, the channel or 0 (no parameter) for the others
Commands ==
    {[name |-> n, chn |-> v] : n \in {"TFA:TALK", "TFA:HEAD"}, v \in {0, 1}}
    \cup {[name |-> n, chn |-> c] : n \in {"TFA:DATA:NEW?", "TFA:DATA?", "TFA:SYNC"},
                                    c \in 0 .. SENSOR_CHANNELS}
    \cup {[name |-> n, chn |-> 0] : n \in {"TFA:COUNT?", "TFA:COUNT:RESET"}}

\* the commands about the data and the channel slots
DataCommands == {c \in Commands : c.name \in {"TFA:TALK", "TFA:DATA:NEW?", "TFA:DATA?", "TFA:SYNC"}}
\* the commands about the counter and the report format
CountCommands == {c \in Commands : c.name \in {"TFA:HEAD", "TFA:COUNT?", "TFA:COUNT:RESET"}}

\* a command line has arrived over the UART
SerialRxCmd ==
    /\ pc = "idle"
    /\ cmd = NoCmd
    /\ cmd' \in DataCommands
    /\ UNCHANGED <<isrVars, tfa, sensors, syst, pc, buf, packets, tx, env, obs>>

\* the handler has run: the command is gone, the loop goes on
Handled ==
    /\ cmd' = NoCmd
    /\ UNCHANGED <<isrVars, pc, buf, packets, env, obs>>

\* TFA:TALK <state>
CmdTalk ==
    /\ pc = "idle"
    /\ cmd.name = "TFA:TALK"
    /\ syst' = [syst EXCEPT !.flags = ClrFlag(@, SYST_TALK) + cmd.chn * SYST_TALK]
    /\ UNCHANGED <<tfa, sensors, tx>>
    /\ Handled

\* TFA:HEAD <state>
CmdHead ==
    /\ pc = "idle"
    /\ cmd.name = "TFA:HEAD"
    /\ syst' = [syst EXCEPT !.flags = ClrFlag(@, SYST_HEAD) + cmd.chn * SYST_HEAD]
    /\ UNCHANGED <<tfa, sensors, tx>>
    /\ Handled

\* the answer of TFA:DATA:NEW? [<channel>]
NewAnswer(t, chans, chn) ==
    LET new == IF chn = 0 THEN HasFlag(t.flags, TFA_NEW_PACKET)
                          ELSE HasFlag(chans[chn].flags, TFA_NEW_PACKET)
    IN  [kind |-> IF new THEN "1" ELSE "0"]

\* faulty variant: the query without a channel clears the fresh flag
CmdDataNewConsuming ==
    /\ pc = "idle"
    /\ cmd.name = "TFA:DATA:NEW?"
    /\ tx' = Send(tx, NewAnswer(tfa, sensors, cmd.chn))
    /\ tfa' = IF cmd.chn = 0 THEN [tfa EXCEPT !.flags = ClrFlag(@, TFA_NEW_PACKET)] ELSE tfa
    /\ UNCHANGED <<sensors, syst>>
    /\ Handled

\* TFA:DATA:NEW? [<channel>]
CmdDataNew ==
    /\ pc = "idle"
    /\ cmd.name = "TFA:DATA:NEW?"
    /\ tx' = Send(tx, NewAnswer(tfa, sensors, cmd.chn))
    /\ UNCHANGED <<tfa, sensors, syst>>
    /\ Handled

\* faulty variant: the flags byte is written back as it was read before a
\* publication, so TFA_NEW_PACKETS goes with TFA_NEW_PACKET
CmdDataStaleFlags ==
    /\ pc = "idle"
    /\ cmd.name = "TFA:DATA?"
    /\ IF cmd.chn = 0
       THEN LET sensor == tfa_parse(tfa.packet)
            IN  /\ tx' = Send(tx, IF type_ok(sensor) THEN tfa_print_sensor(syst, sensor)
                                                     ELSE [kind |-> "error parsing data"])
                /\ sensors' = sensors
       ELSE /\ tx' = Send(tx, tfa_print_sensor(syst, sensors[cmd.chn]))
            /\ sensors' = [sensors EXCEPT ![cmd.chn].flags = ClrFlag(@, TFA_NEW_PACKET)]
    /\ tfa' = [tfa EXCEPT !.flags = ClrFlag(ClrFlag(@, TFA_NEW_PACKET), TFA_NEW_PACKETS)]
    /\ UNCHANGED syst
    /\ Handled

\* faulty variant: a read of one channel marks every slot as read
CmdDataClearsAll ==
    /\ pc = "idle"
    /\ cmd.name = "TFA:DATA?"
    /\ IF cmd.chn = 0
       THEN LET sensor == tfa_parse(tfa.packet)
            IN  /\ tx' = Send(tx, IF type_ok(sensor) THEN tfa_print_sensor(syst, sensor)
                                                     ELSE [kind |-> "error parsing data"])
                /\ sensors' = sensors
       ELSE /\ tx' = Send(tx, tfa_print_sensor(syst, sensors[cmd.chn]))
            /\ sensors' = [c \in 1 .. SENSOR_CHANNELS |->
                              [sensors[c] EXCEPT !.flags = ClrFlag(@, TFA_NEW_PACKET)]]
    /\ tfa' = [tfa EXCEPT !.flags = ClrFlag(@, TFA_NEW_PACKET)]
    /\ UNCHANGED syst
    /\ Handled

\* TFA:DATA? [<channel>]
CmdData ==
    /\ pc = "idle"
    /\ cmd.name = "TFA:DATA?"
    /\ IF cmd.chn = 0
       THEN LET sensor == tfa_parse(tfa.packet)
            IN  /\ tx' = Send(tx, IF type_ok(sensor) THEN tfa_print_sensor(syst, sensor)
                                                     ELSE [kind |-> "error parsing data"])
                /\ sensors' = sensors
       ELSE /\ tx' = Send(tx, tfa_print_sensor(syst, sensors[cmd.chn]))
            /\ sensors' = [sensors EXCEPT ![cmd.chn].flags = ClrFlag(@, TFA_NEW_PACKET)]
    /\ tfa' = [tfa EXCEPT !.flags = ClrFlag(@, TFA_NEW_PACKET)]
    /\ UNCHANGED syst
    /\ Handled

\* TFA:COUNT?
CmdCount ==
    /\ pc = "idle"
    /\ cmd.name = "TFA:COUNT?"
    /\ tx' = Send(tx, [kind |-> "count", packets |-> syst.packets])
    /\ UNCHANGED <<tfa, sensors, syst>>
    /\ Handled

\* TFA:COUNT:RESET
CmdCountReset ==
    /\ pc = "idle"
    /\ cmd.name = "TFA:COUNT:RESET"
    /\ syst' = [syst EXCEPT !.packets = 0]
    /\ cmd' = NoCmd
    /\ obs' = [obs EXCEPT !.rst = TRUE]
    /\ UNCHANGED <<isrVars, tfa, sensors, pc, buf, packets, tx, env>>

\* a sensor of another type on channel 2
ReadingU == [id |-> 9, channel |-> 2, temp |-> 100, rh |-> 50, type |-> 145,
             sync |-> 0, batt |-> 0]
CmdSenders == {ReadingG, ReadingH, ReadingU}
\* repetitions of a burst that got through: the fewest that are published
CmdBurstLen == 3

\* the statics of the interrupt when n complete repetitions of p have been
\* counted: the first n slots hold the packet, the countdown is idle
Counted(s, p, n) ==
    [s EXCEPT !.tfa_buf = [k \in SlotIdx |-> IF k < n THEN Encode(p) ELSE @[k]],
              !.tfa_buf_bit = -1,
              !.tfa_buf_packet = n]

\* the pause after a burst of CmdBurstLen repetitions.  The loop and the
\* handlers see the interrupt only through the TTFA, which changes at the gap
\* alone, so the pulses of the burst are not taken one by one here: the gap
\* finds the statics as the repetitions leave them (CountedAsReceived).
RxBurst ==
    /\ env.bursts < env.maxbursts
    /\ \E p \in CmdSenders :
         LET s == Counted(Receiver, p, CmdBurstLen)
         IN  /\ SetReceiver(ISR_Rise(s, TIMER_MAX))
             /\ AfterRise(TIMER_MAX)
             /\ obs' = IF s.tfa_buf_packet >= 3 /\ s.tfa_buf_packet <= TFA_PACKETS
                       THEN [obs EXCEPT !.pub = @ + 1,
                                        !.last = <<s.tfa_buf, s.tfa_buf_packet>>]
                       ELSE obs
             /\ env' = [env EXCEPT !.p = p, !.bursts = @ + 1]
    /\ UNCHANGED mainVars

\* Counted is what the interrupt computes: every state of Spec in which the
\* burst of env.p stands at n counted repetitions, with the countdown idle,
\* is the state Counted gives for the statics as they were n repetitions ago
CountedAsReceived ==
    [][(env'.bursts = env.bursts /\ tfa_buf_packet' = tfa_buf_packet + 1)
          => Receiver' = [Counted(Receiver, env.p, tfa_buf_packet + 1) EXCEPT !.tfa = tfa']]_vars

InitCmd ==
    /\ \E g \in UninitFill : StartWith(InitReceiver(g)) /\ Sampled(0, 0) /\ InitMain(g)
    /\ env = Transmitter(ReadingG, MaxCmdBursts, 0)

NextCmd ==
    \/ RxBurst
    \/ ProcCheck \/ ProcCopy \/ ProcVote \/ Decode
    \/ SerialRxCmd
    \/ CmdTalk \/ CmdDataNew \/ CmdData \/ CmdSync

SpecCmd == InitCmd /\ [][NextCmd]_vars

\* the while(1) of main keeps iterating: serial_decode and the handlers
\* return, and tfa_proc_packets with what follows it runs in every round
Loop == ProcCheck \/ ProcCopy \/ ProcVote \/ Decode

\* what a step of Loop does to the position of the loop
LoopAdvance ==
    \/ pc = "idle" /\ HasFlag(tfa.flags, TFA_NEW_PACKETS) /\ pc' = "copy"
    \/ pc = "copy" /\ pc' = "vote"
    \/ pc = "vote" /\ pc' \in {"decode", "idle"}
    \/ pc = "decode" /\ pc' = "idle"

\* the steps that move the position of the loop are the steps of Loop that
\* are not the idle round
LoopAdvanceIsLoop == [][LoopAdvance <=> (Loop /\ pc' # pc)]_vars

\* bursts, the loop and TFA:SYNC lines
NextLive == RxBurst \/ Loop \/ SerialRx \/ CmdSync

\* the loop is kept going: weak fairness of the steps that move its position
\* (by LoopAdvanceIsLoop the same as weak fairness of Loop; ENABLED is read off
\* the position without running the vote)
SpecLive == InitCmd /\ [][NextLive]_vars /\ WF_pc(LoopAdvance)

\* ------------------------------------------------------------ counter runs
\* the counter when the run starts: just initialised, or after 65535 accepted
\* bursts
CountStart == {0, 65535}

InitCount ==
    \E g \in UninitFill, n \in CountStart :
        /\ StartWith(InitReceiver(g))
        /\ Sampled(0, 0)
        /\ sensors = [k \in 1 .. SENSOR_CHANNELS |->
                        [id |-> ID_NONE, channel |-> g, temp |-> g, rh |-> g, type |-> g,
                         flags |-> 0]]
        /\ syst = [packets |-> n, flags |-> SYST_TALK + SYST_HEAD]
        /\ pc = "idle"
        /\ buf = NoBuf
        /\ packets = 0
        /\ cmd = NoCmd
        /\ tx = NoTx
        /\ obs = [pub |-> 0, cop |-> 0, rec |-> 0, last |-> <<>>, rst |-> FALSE]
        /\ env = Transmitter(ReadingG, MaxCmdBursts, 0)

\* a command line about the counter or the format has arrived
SerialRxCount ==
    /\ pc = "idle"
    /\ cmd = NoCmd
    /\ cmd' \in CountCommands
    /\ UNCHANGED <<isrVars, tfa, sensors, syst, pc, buf, packets, tx, env, obs>>

NextCount ==
    \/ RxBurst
    \/ ProcCheck \/ ProcCopy \/ ProcVote \/ Decode
    \/ SerialRxCount
    \/ CmdHead \/ CmdCount \/ CmdCountReset

SpecCount == InitCount /\ [][NextCount]_vars

\* ------------------------------------------------------------ pulse-level runs
\* readings framed pulse by pulse: the two senders, all bits set, no bit set
ReadingOnes == [id |-> 15, channel |-> 4, temp |-> -1, rh |-> 255, type |-> 255,
                sync |-> 1, batt |-> 1]
ReadingZeros == [id |-> 0, channel |-> 1, temp |-> 0, rh |-> 0, type |-> 0,
                 sync |-> 0, batt |-> 0]
FrameReadings == {ReadingG, ReadingH, ReadingOnes, ReadingZeros}

\* repetitions of the burst already counted when the run starts
FrameStart == {0, 6, 7, 8}
\* positions in the frame (data pulses sent so far) where noise may come in
StrayAt == {0, 20, 36, 37}

\* an earlier burst of 7 repetitions with all bits set was received and
\* published, and k0 repetitions of the present burst have been counted
InitFrame ==
    /\ \E g \in UninitFill, k0 \in FrameStart, q \in {ReadingH, ReadingZeros} :
         /\ StartWith(Repetitions(
                ISR_Rise(Repetitions(InitReceiver(g), ReadingOnes, TFA_PACKETS), TIMER_MAX),
                q, k0))
         /\ Sampled(1, TIMER_MAX)
         /\ InitMain(g)
         /\ env = Transmitter(q, 0, 0)

\* a pulse of d ticks ends; env is what the transmitter and the noise did
Pulse(d, e) ==
    /\ Rise(d)
    /\ env' = [e EXCEPT !.d = d]
    /\ UNCHANGED <<mainVars, obs>>

Noise == env.stray < MaxStray /\ env.k \in StrayAt

\* the start pulse of the next repetition
FrStart ==
    /\ env.k \in {-1, TFA_BITS + 1}
    /\ env.frames < MaxFrames
    /\ \E d \in StartDur, r \in FrameReadings :
         Pulse(d, [env EXCEPT !.p = r, !.k = 0, !.bits = <<>>, !.clean = TRUE,
                              !.glitched = FALSE, !.frames = @ + 1])

\* the next data pulse of the repetition
FrBit ==
    /\ env.k \in 0 .. (TFA_BITS - 1)
    /\ LET bit == SensorBits(env.p)[env.k + 1]
       IN  \E d \in DataDur(bit) :
             Pulse(d, [env EXCEPT !.k = @ + 1, !.bits = Append(@, bit)])

\* the stop pulse of the repetition
FrStop ==
    /\ env.k = TFA_BITS
    /\ \E d \in StopDur : Pulse(d, [env EXCEPT !.k = TFA_BITS + 1])

\* noise: a glitch
FrGlitch ==
    /\ Noise
    /\ \E d \in GlitchDur :
         Pulse(d, [env EXCEPT !.stray = @ + 1, !.clean = FALSE, !.glitched = TRUE])

\* noise: a pulse as long as a data pulse
FrExtraBit ==
    /\ Noise
    /\ \E bit \in {0, 1} :
         Pulse(DataTicks(bit), [env EXCEPT !.stray = @ + 1, !.bits = Append(@, bit)])

\* noise: a pulse as long as a stop pulse
FrStrayStop ==
    /\ Noise
    /\ Pulse(TicksOf(TFA_T_STOP_NOM_US), [env EXCEPT !.stray = @ + 1, !.clean = FALSE])

\* noise: a pulse as long as a start pulse
FrRestart ==
    /\ Noise
    /\ Pulse(TicksOf(TFA_T_START_NOM_US),
             [env EXCEPT !.stray = @ + 1, !.bits = <<>>, !.clean = TRUE,
                         !.glitched = FALSE])

\* the signal is lost for longer than the gap threshold
FrGap ==
    /\ Noise
    /\ \E d \in GapDur : Pulse(d, [env EXCEPT !.stray = @ + 1, !.clean = FALSE])

NextFrame ==
    \/ FrStart \/ FrBit \/ FrStop
    \/ FrGlitch \/ FrExtraBit \/ FrStrayStop \/ FrRestart \/ FrGap

SpecFrame == InitFrame /\ [][NextFrame]_vars

\* runs from reset: the statics of the ISR as the compiler initialised them,
\* nothing received yet
InitReset ==
    /\ \E g \in UninitFill : StartWith(InitReceiver(g)) /\ Sampled(0, 0) /\ InitMain(g)
    /\ env = Transmitter(ReadingG, 0, 0)

\* noise before the first start pulse: a pulse as long as a stop pulse
FrEarlyStop ==
    /\ env.k = -1
    /\ env.stray < MaxStray
    /\ Pulse(TicksOf(TFA_T_STOP_NOM_US), [env EXCEPT !.stray = @ + 1, !.clean = FALSE])

NextReset == NextFrame \/ FrEarlyStop

SpecReset == InitReset /\ [][NextReset]_vars

\* runs over single pulses of any length the timer can hold, with the receiver
\* after reset, 16 data pulses into the fourth repetition, before the stop
\* pulse of the seventh, and after an eighth repetition
PulseStarts(g) ==
    LET r0 == InitReceiver(g)
        started(n) == ISR_Rise(Repetitions(r0, ReadingG, n), TicksOf(TFA_T_START_NOM_US))
    IN  {r0,
         FeedBits(started(3), SubSeq(SensorBits(ReadingH), 1, 16), 1),
         FeedBits(started(TFA_PACKETS - 1), SensorBits(ReadingH), 1),
         Repetitions(r0, ReadingG, TFA_PACKETS + 1)}

InitPulse ==
    /\ \E g \in UninitFill :
         /\ \E r \in PulseStarts(g) :
              /\ StartWith(r)
              /\ IF r = InitReceiver(g) THEN Sampled(0, 0) ELSE Sampled(1, TIMER_MAX)
         /\ InitMain(g)
    /\ env = Transmitter(ReadingG, 0, 0)

\* a low pulse ends with the timer at any value
RisePulse ==
    /\ env.stray < MaxStray
    /\ \E d \in 0 .. TIMER_MAX : Pulse(d, [env EXCEPT !.stray = @ + 1])

NextPulse == RisePulse

SpecPulse == InitPulse /\ [][NextPulse]_vars

\* ------------------------------------------------------------ tick-level runs
\* the receiver after reset, or with three repetitions of a burst counted and
\* the line high since
InitTick ==
    /\ \E g \in UninitFill :
         /\ \/ StartWith(InitReceiver(g)) /\ Sampled(0, 0)
            \/ /\ StartWith(Repetitions(InitReceiver(g), ReadingG, 3))
               /\ Sampled(1, TIMER_MAX)
         /\ InitMain(g)
    /\ env = Transmitter(ReadingG, 0, 0)

\* one run of the timer interrupt with the line sampled at tfa_state
TickISR(tfa_state) ==
    LET tfa_fall == tfa_old = 1 /\ tfa_state = 0
        tfa_rise == tfa_old = 0 /\ tfa_state = 1
    IN  /\ tfa_old' = tfa_state
        /\ IF ~tfa_fall /\ tfa_rise
           THEN SetReceiver(ISR_Rise(Receiver, tfa_timer))
           ELSE UNCHANGED <<tfa_buf, tfa_buf_bit, tfa_buf_packet, tfa>>
        /\ tfa_timer' = TimerTick(IF tfa_fall THEN 0 ELSE tfa_timer)

\* a tick with the line low
TickLow ==
    /\ env.low < MaxLow
    /\ tfa_old = 1 => env.stray < MaxStray
    /\ TickISR(0)
    /\ env' = [env EXCEPT !.low = @ + 1]
    /\ UNCHANGED <<mainVars, obs>>

\* a tick with the line high
TickHigh ==
    /\ tfa_old = 0 => env.stray < MaxStray
    /\ TickISR(1)
    /\ env' = IF tfa_old = 0
              THEN [env EXCEPT !.low = 0, !.stray = @ + 1, !.long = env.low > TIMER_MAX]
              ELSE env
    /\ UNCHANGED <<mainVars, obs>>

NextTick == TickLow \/ TickHigh

SpecTick == InitTick /\ [][NextTick]_vars

\* 36 data pulses and nothing else since the start pulse
FullFrame == env.clean /\ Len(env.bits) = TFA_BITS
\* the slot the frame went to: the index moves on with the stop pulse
FrameSlot == IF env.k = TFA_BITS + 1 THEN tfa_buf_packet - 1 ELSE tfa_buf_packet
\* what tfa_parse makes of a reading
Parsed(r) == [id |-> r.id, channel |-> r.channel, temp |-> r.temp, rh |-> r.rh,
              type |-> r.type,
              flags |-> TFA_NEW_PACKET + r.sync * TFA_SYNC + r.batt * TFA_LOW_BATT]

\* C5: after exactly 36 data pulses since the start pulse, with the repetition
\* index below 7, the k-th bit is at position 35-k of the slot, the upper
\* four bits of byte 4 are zero, and the slot is the byte layout of the
\* reading sent, which tfa_parse gives back
C5_FramingRoundTrip ==
    (FullFrame /\ FrameSlot \in SlotIdx) =>
        LET slot == tfa_buf[FrameSlot]
        IN  /\ \A k \in 0 .. (TFA_BITS - 1) :
                 BitAt(slot[(TFA_BITS - 1 - k) \div 8], (TFA_BITS - 1 - k) % 8)
                     = env.bits[k + 1]
            /\ slot[TFA_BUF_BYTES - 1] \div 16 = 0
            /\ \A r \in FrameReadings :
                 env.bits = SensorBits(r) => slot = Encode(r) /\ tfa_parse(slot) = Parsed(r)

\* the sixth-counted slot held all bits set from the earlier burst; the frame
\* of sender G has been stored over it and counted
C5_Witness ==
    /\ FullFrame
    /\ env.k = TFA_BITS + 1
    /\ env.bits = SensorBits(ReadingG)
    /\ tfa_buf_packet = TFA_PACKETS
    /\ tfa.data[TFA_PACKETS - 1] = Encode(ReadingOnes)
    /\ tfa_buf[TFA_PACKETS - 1] = PacketG

\* C6: a glitch sets the countdown to idle and leaves the repetition index and
\* the slots below it as they are; until the next start pulse no pulse makes
\* the index grow, so the repetition in progress is never counted
C6_GlitchAborts ==
    [][/\ TFA_IS_GLITCH(env'.d) =>
            /\ tfa_buf_bit' = -1
            /\ tfa_buf_packet' = tfa_buf_packet
            /\ \A i \in SlotIdx : i < tfa_buf_packet => tfa_buf'[i] = tfa_buf[i]
       /\ (env.glitched /\ env'.glitched) => tfa_buf_packet' <= tfa_buf_packet]_vars

\* a glitch came after 20 data pulses of the seventh repetition; the rest of
\* the frame and its stop pulse went by and the index is still 6
C6_Witness ==
    /\ env.glitched
    /\ env.k = TFA_BITS + 1
    /\ tfa_buf_packet = TFA_PACKETS - 1
    /\ tfa_buf_bit = -1
    /\ \A i \in 0 .. (TFA_PACKETS - 2) : tfa_buf[i] = PacketH

\* C18: the repetition index grows only with a stop pulse that closes a full
\* frame: since the most recent start pulse there were exactly 36 data pulses
\* and no glitch, stop pulse or gap; so it does not grow before the first
\* start pulse, nor for a frame that was started before a gap
C18_AdvanceOnlyAfterFullFrame ==
    [][tfa_buf_packet' > tfa_buf_packet =>
         (/\ TFA_IS_STOP(env'.d) /\ ~TFA_IS_GLITCH(env'.d)
          /\ FullFrame)]_vars

\* C19: at a rising edge every timer value falls under exactly one of glitch
\* (below the glitch threshold), stop (else, below the stop threshold), gap
\* (else, above the gap threshold), start (else, above the start threshold)
\* and data (else), and the receiver does what that kind says: above the gap
\* threshold it ends the transmission and does not start a frame; below the
\* glitch threshold it counts no repetition; a data pulse has value 0 exactly
\* below the midpoint threshold
C19_ClassificationChain ==
    [][env'.stray = env.stray + 1 =>
         LET d == env'.d
             us == d * TFA_TICK_REAL_US
             s == Receiver
             t == Receiver'
             glitch == us < TFA_T_GLITCH_US
             stop == ~glitch /\ us < TFA_T_STOP_US
             gap == ~glitch /\ ~stop /\ us > TFA_T_GAP_US
             start == ~glitch /\ ~stop /\ ~gap /\ us > TFA_T_START_US
             data == ~glitch /\ ~stop /\ ~gap /\ ~start
         IN  /\ Cardinality({k \in 1 .. 5 : <<glitch, stop, gap, start, data>>[k]}) = 1
             /\ glitch => t = GlitchPulse(s)
             /\ stop => t = StopBit(s)
             /\ gap => t = EndOfTransmission(s)
             /\ start => t = StartBit(s)
             /\ data => t = DataBit(s, IF us < TFA_T_MID_US THEN 0 ELSE 1)
             /\ us > TFA_T_GAP_US => (t.tfa_buf_packet = 0 /\ t.tfa_buf_bit = s.tfa_buf_bit)
             /\ us < TFA_T_GLITCH_US => t.tfa_buf_packet = s.tfa_buf_packet]_vars

\* a pulse just above the gap threshold came 16 data pulses into the fourth
\* repetition: the three repetitions were published and the countdown stands
\* where it was, at 20, not at 36
C19_Witness ==
    /\ env.stray = 1
    /\ env.d = TicksOf(TFA_T_GAP_US) + 1
    /\ tfa_buf_packet = 0
    /\ tfa_buf_bit = TFA_BITS - 16
    /\ tfa.packets = 3
    /\ HasFlag(tfa.flags, TFA_NEW_PACKETS)

\* the tick at which the interrupt sees the line go up
RiseStep == tfa_old = 0 /\ tfa_old' = 1

\* C20: the timer stays within 0..255 and, while the line is low, stands at
\* the number of low ticks so far or at 255, whichever is smaller: it does
\* not come back to a small value; at the rising edge after more than 255 low
\* ticks the timer is 255, which is above the gap threshold and under neither
\* the glitch nor the stop threshold, and the interrupt ends the transmission
C20_TimerSaturates ==
    /\ [](/\ tfa_timer \in 0 .. TIMER_MAX
          /\ tfa_old = 0 =>
                tfa_timer = IF env.low < TIMER_MAX THEN env.low ELSE TIMER_MAX)
    /\ [][(RiseStep /\ env.low > TIMER_MAX) =>
            /\ tfa_timer = TIMER_MAX
            /\ TFA_IS_GAP(tfa_timer)
            /\ ~TFA_IS_GLITCH(tfa_timer) /\ ~TFA_IS_STOP(tfa_timer)
            /\ Receiver' = EndOfTransmission(Receiver)
            /\ tfa_buf_bit' = tfa_buf_bit /\ tfa_buf' = tfa_buf]_vars

\* after three repetitions the line fell and stayed low for more than 255
\* ticks; at the rising edge the three captures were published
C20_Witness ==
    /\ env.long
    /\ tfa_old = 1
    /\ tfa_buf_packet = 0
    /\ tfa.packets = 3
    /\ HasFlag(tfa.flags, TFA_NEW_PACKETS)
    /\ tfa.data[2] = PacketG

\* ------------------------------------------------------------ channel slots
DecodeStep == pc = "decode" /\ pc' = "idle"
\* the TFA:SYNC handler runs for channel c (or for all channels)
SyncStep(c) == /\ pc = "idle" /\ cmd' = NoCmd
               /\ cmd.name = "TFA:SYNC" /\ cmd.chn \in {0, c}

\* C4: an unlocked slot (id 0xFF) adopts and stores a valid reading of its
\* channel; a locked slot is overwritten by a reading of its own identity and
\* left alone by any other; a resync of the channel sets the identity to 0xFF,
\* and nothing else releases a lock
C4_IdentityLocking ==
    [][\A c \in 1 .. SENSOR_CHANNELS :
         LET r == tfa_parse(tfa.packet)
         IN  /\ (DecodeStep /\ type_ok(r) /\ r.channel = c)
                   => IF sensors[c].id \in {ID_NONE, r.id}
                      THEN sensors'[c] = r
                      ELSE sensors'[c] = sensors[c]
             /\ SyncStep(c) => sensors'[c].id = ID_NONE
             /\ (sensors[c].id # ID_NONE /\ sensors'[c].id # sensors[c].id)
                   => SyncStep(c)]_vars

\* both senders were accepted, the first burst (7 repetitions of G) locked
\* channel 2 to G, and the slot now holds H: a resync came in between
C4_Witness ==
    /\ syst.packets = 2
    /\ tfa.packets = 3
    /\ tfa.data[0] = PacketH
    /\ tfa.data[TFA_PACKETS - 1] = PacketG
    /\ sensors[2] = tfa_parse(PacketH)
    /\ pc = "idle"

\* ------------------------------------------------------------ bursts
\* the pause after a burst has gone by
GapStep == env'.bursts = env.bursts + 1
InRange(n) == n >= 3 /\ n <= TFA_PACKETS
InitialSlot(c) == sensors[c].id = ID_NONE /\ sensors[c].flags = 0

\* C7: a gap resets the repetition index in every case and publishes (captures,
\* count, TFA_NEW_PACKETS) exactly when the index is in 3..7; below 3 the
\* shared struct is left alone, and as long as no burst has been published
\* the loop finds no flag, reconciles nothing, counts nothing and stores
\* nothing in a channel slot
C7_IncompleteBurst ==
    /\ [][GapStep =>
            /\ tfa_buf_packet' = 0
            /\ sensors' = sensors /\ syst' = syst
            /\ IF InRange(tfa_buf_packet)
               THEN /\ tfa'.data = tfa_buf
                    /\ tfa'.packets = tfa_buf_packet
                    /\ HasFlag(tfa'.flags, TFA_NEW_PACKETS)
               ELSE tfa' = tfa]_vars
    /\ [](obs.pub = 0 =>
            /\ tfa.flags = 0
            /\ pc = "idle"
            /\ obs.rec = 0
            /\ syst.packets = 0
            /\ \A c \in 1 .. SENSOR_CHANNELS : InitialSlot(c))

\* a burst of two repetitions has gone by and nothing came of it
C7_Witness ==
    /\ env.bursts >= 1
    /\ obs.pub = 0
    /\ tfa_buf_packet = 0
    /\ tfa_buf[1] \in {PacketG, PacketH}
    /\ tfa_buf[2] = FillPacket(0)
    /\ tfa.flags = 0
    /\ syst.packets = 0

\* ------------------------------------------------------------ end to end
\* the one burst of the run was published with 7 captures, 5 of them the same
FiveOfSeven ==
    /\ env.bursts = 1
    /\ obs.pub >= 1
    /\ tfa.packets = TFA_PACKETS
    /\ MaxGroup(tfa.data, TFA_PACKETS) = 5
\* the loop is through with everything published
Quiescent == pc = "idle" /\ ~HasFlag(tfa.flags, TFA_NEW_PACKETS)

\* C8: 5 identical valid repetitions and 2 damaged ones in any positions,
\* then the gap: one publication, one reconciled packet equal to the 5
\* identical captures, one valid reading, one increment of the counter, and
\* the reading stored in the slot of its channel (which a later TFA:SYNC may
\* unlock again)
C8_EndToEnd ==
    FiveOfSeven =>
        /\ obs.pub = 1
        /\ obs.rec <= 1
        /\ syst.packets <= obs.rec
        /\ Quiescent =>
              LET r == tfa_parse(tfa.packet)
              IN  /\ obs.rec = 1
                  /\ tfa.packet \in Largest(tfa.data, TFA_PACKETS)
                  /\ type_ok(r)
                  /\ syst.packets = 1
                  /\ r.channel \in 1 .. SENSOR_CHANNELS
                  /\ sensors[r.channel] \in {r, [r EXCEPT !.id = ID_NONE]}

\* the first and the last repetition were the damaged ones
C8_Witness ==
    /\ FiveOfSeven
    /\ Quiescent
    /\ tfa.data[0] # tfa.packet
    /\ tfa.data[TFA_PACKETS - 1] # tfa.packet
    /\ tfa.data[0] # tfa.data[TFA_PACKETS - 1]
    /\ syst.packets = 1
    /\ sensors[2] = tfa_parse(tfa.packet)

\* ------------------------------------------------------------ capacity
\* C9 as stated: the repetition index is within 0..7 and a published count is
\* at most 7
C9_IndexWithinCapacity ==
    /\ tfa_buf_packet \in 0 .. TFA_PACKETS
    /\ obs.pub > 0 => tfa.packets <= TFA_PACKETS

\* C9, amended: the repetition index is within 0..8 (8 marks a burst of more
\* than 7 repetitions), and a published count is within 3..7
C9_IndexWithinCapacityPlusOne ==
    /\ tfa_buf_packet \in 0 .. (TFA_PACKETS + 1)
    /\ obs.pub > 0 => InRange(tfa.packets)

\* an eighth repetition has been counted after an earlier burst of 7
C9_Witness ==
    /\ tfa_buf_packet = TFA_PACKETS + 1
    /\ obs.pub > 0
    /\ tfa.packets = TFA_PACKETS

\* a repetition arrives when 7 or more have been counted in the burst
BeyondSeventh ==
    /\ ~GapStep
    /\ tfa_buf_packet >= TFA_PACKETS
    /\ <<tfa_buf, tfa_buf_bit, tfa_buf_packet>>' # <<tfa_buf, tfa_buf_bit, tfa_buf_packet>>

\* C17 as stated: repetitions beyond the seventh leave the seven captures as
\* they are, and the gap after more than 7 repetitions publishes them with
\* count 7
C17_OverlongPublished ==
    [][/\ BeyondSeventh => (tfa_buf' = tfa_buf /\ tfa' = tfa)
       /\ (GapStep /\ tfa_buf_packet > TFA_PACKETS) =>
              (/\ tfa'.data = tfa_buf
               /\ tfa'.packets = TFA_PACKETS
               /\ HasFlag(tfa'.flags, TFA_NEW_PACKETS))]_vars

\* C17, amended: repetitions beyond the seventh leave the seven captures as
\* they are and move the index to 8; the gap after more than 7 repetitions
\* publishes nothing (captures, count and flags of the TTFA stay as they
\* were) and resets the index
C17_OverlongDropped ==
    [][/\ BeyondSeventh =>
              (/\ tfa_buf' = tfa_buf /\ tfa' = tfa
               /\ tfa_buf_packet' = TFA_PACKETS + 1)
       /\ (GapStep /\ tfa_buf_packet > TFA_PACKETS) =>
              (/\ tfa' = tfa
               /\ tfa_buf' = tfa_buf
               /\ tfa_buf_packet' = 0
               /\ obs' = obs)]_vars

\* the first burst had more than 7 repetitions: the gap has gone by, the seven
\* captures are in the slots and nothing was published
C17_Witness ==
    /\ env.bursts = 1
    /\ obs.pub = 0
    /\ tfa_buf_packet = 0
    /\ \A i \in SlotIdx : tfa_buf[i] \in {PacketG, PacketH}
    /\ tfa.flags = 0
    /\ pc = "idle"

\* ------------------------------------------------------------ hand-off
CopyStep == pc = "copy" /\ pc' = "vote"

\* C10: the private copy is the captures and the count of one publication,
\* the last one before the copy, and TFA_NEW_PACKETS is cleared in the step
\* that takes the copy
C10_SnapshotConsistent ==
    [][CopyStep =>
         /\ <<buf', packets'>> = obs.last
         /\ ~HasFlag(tfa'.flags, TFA_NEW_PACKETS)
         /\ tfa'.data = tfa.data /\ tfa'.packets = tfa.packets]_vars

\* a second burst, of another length, was published between the flag check
\* and the copy; the copy is that burst
C10_Witness ==
    /\ pc = "vote"
    /\ obs.pub = 2
    /\ obs.rec = 0
    /\ packets = 3
    /\ buf[0] = PacketH
    /\ buf[TFA_PACKETS - 1] = PacketG
    /\ <<buf, packets>> = obs.last
    /\ ~HasFlag(tfa.flags, TFA_NEW_PACKETS)

\* ------------------------------------------------------------ no queue
PublishStep == obs'.pub = obs.pub + 1

\* C11: there is one capture set and one reconciled packet, never a queue: a
\* publication overwrites the shared captures whether or not the last ones
\* were read; the reconciler copies only while the new-burst flag is set, and
\* what it copies is the last publication; so there are never more copies
\* than publications, and with the flag set there are fewer; a new reconciled
\* packet overwrites an unread one and the fresh flag stays set
C11_MostRecentWins ==
    /\ [][/\ PublishStep =>
               (/\ <<tfa'.data, tfa'.packets>> = obs'.last
                /\ HasFlag(tfa'.flags, TFA_NEW_PACKETS))
          /\ CopyStep =>
               (/\ HasFlag(tfa.flags, TFA_NEW_PACKETS)
                /\ <<buf', packets'>> = obs.last)
          /\ (VoteStep /\ HasFlag(tfa.flags, TFA_NEW_PACKET)) =>
               (/\ tfa'.packet \in {buf[k] : k \in 0 .. (packets - 1)}
                /\ HasFlag(tfa'.flags, TFA_NEW_PACKET))]_vars
    /\ [](/\ obs.cop <= obs.pub
          /\ (HasFlag(tfa.flags, TFA_NEW_PACKETS) => obs.cop < obs.pub))

\* two bursts were published, the loop came by once, after the second, and
\* the reconciled packet of the second burst waits unread
C11_Witness ==
    /\ obs.pub = 2
    /\ obs.cop = 1
    /\ obs.rec = 1
    /\ Quiescent
    /\ ~HasFlag(syst.flags, SYST_TALK)
    /\ HasFlag(tfa.flags, TFA_NEW_PACKET)
    /\ tfa.packet = PacketH
    /\ syst.packets = 1

\* ------------------------------------------------------------ commands
\* the handler of the command named runs
CmdStep(name) == pc = "idle" /\ cmd.name = name /\ cmd' = NoCmd

\* C12: TFA:SYNC sets the identity of the targeted slot(s) to 0xFF and changes
\* nothing else: not the reading and the flags stored in any slot, not the
\* identity of another slot, not the reconciled packet, the flags of the
\* TTFA or the counter, and nothing is sent
C12_ResyncOnlyIdentity ==
    [][CmdStep("TFA:SYNC") =>
         /\ \A c \in 1 .. SENSOR_CHANNELS :
               sensors'[c] = IF cmd.chn \in {0, c}
                             THEN [sensors[c] EXCEPT !.id = ID_NONE]
                             ELSE sensors[c]
         /\ tfa'.packet = tfa.packet
         /\ tfa'.flags = tfa.flags
         /\ syst' = syst
         /\ tx' = tx]_vars

\* the slot of channel 2 held an unread reading of G; after the resync it
\* still does, without the lock, and the reconciled packet is still fresh
C12_Witness ==
    /\ cmd = NoCmd
    /\ sensors[2] = [tfa_parse(PacketG) EXCEPT !.id = ID_NONE]
    /\ HasFlag(sensors[2].flags, TFA_NEW_PACKET)
    /\ HasFlag(tfa.flags, TFA_NEW_PACKET)
    /\ tfa.packet = PacketG
    /\ syst.packets = 1

\* C13: when the reconciled packet decodes to a type other than 0x90, the
\* decode step changes no channel slot and not the counter and sends nothing;
\* so every reading a slot has taken in is of type 0x90
C13_UnknownTypeDropped ==
    /\ [][(DecodeStep /\ tfa_parse(tfa.packet).type # TFA_TYPE) =>
             /\ sensors' = sensors
             /\ syst' = syst
             /\ tx' = tx]_vars
    /\ [](\A c \in 1 .. SENSOR_CHANNELS :
             HasFlag(sensors[c].flags, TFA_NEW_PACKET) => sensors[c].type = TFA_TYPE)

\* the burst of the sensor of another type has been reconciled and decoded
\* with auto-report on: no slot, no count, no line
C13_Witness ==
    /\ pc = "idle"
    /\ obs.rec = 1
    /\ tfa.packet = Encode(ReadingU)
    /\ HasFlag(syst.flags, SYST_TALK)
    /\ syst.packets = 0
    /\ tx = NoTx
    /\ \A c \in 1 .. SENSOR_CHANNELS : InitialSlot(c)

\* ------------------------------------------------------------ parser runs
\* a reconciled packet of type 0x90 with any two bytes around the temperature
\* field is waiting to be decoded
InitParse ==
    \E g \in UninitFill, b1 \in 0 .. 255, b2 \in 0 .. 255 :
        /\ StartWith([InitReceiver(g) EXCEPT
                         !.tfa.packet = [PacketG EXCEPT ![1] = b1, ![2] = b2],
                         !.tfa.flags = TFA_NEW_PACKET])
        /\ Sampled(1, TIMER_MAX)
        /\ sensors = [k \in 1 .. SENSOR_CHANNELS |->
                        [id |-> ID_NONE, channel |-> g, temp |-> g, rh |-> g, type |-> g,
                         flags |-> 0]]
        /\ syst = [packets |-> 0, flags |-> SYST_TALK + SYST_HEAD]
        /\ pc = "decode"
        /\ buf = NoBuf
        /\ packets = 0
        /\ cmd = NoCmd
        /\ tx = NoTx
        /\ obs = [pub |-> 1, cop |-> 1, rec |-> 1, last |-> <<>>, rst |-> FALSE]
        /\ env = Transmitter(ReadingG, 0, 0)

SpecParse == InitParse /\ [][Decode]_vars

\* the 12-bit field as it stands in the packet
RawTemp(packet) == (packet[1] + 256 * packet[2]) % 4096

\* C14: the temperature tfa_parse gives is the raw 12-bit field r when
\* r < 2048 and r - 4096 when r >= 2048, in tenths of a degree, whatever bits
\* 12..15 of the word (channel, sync, battery) are; the slot stores that value
C14_SignExtension ==
    LET r == RawTemp(tfa.packet)
        t == IF r < 2048 THEN r ELSE r - 4096
        sensor == tfa_parse(tfa.packet)
    IN  /\ sensor.temp = t
        /\ (pc = "idle" /\ sensor.channel <= SENSOR_CHANNELS)
              => sensors[sensor.channel].temp = t

\* raw 4088 with the channel, sync and battery bits set: -8 tenths
C14_Witness ==
    /\ pc = "idle"
    /\ RawTemp(tfa.packet) = 4088
    /\ tfa.packet[2] \div 16 = 13
    /\ sensors[2].temp = -8
    /\ tx.line.t = -8

\* C16: TFA:DATA:NEW? sends "1" when the flag asked for (the fresh flag of the
\* TTFA without a channel, the new flag of the slot with one) is set and "0"
\* when it is not, and changes nothing: the flags of the TTFA, the slots and
\* the counter are after the query what they were before, so the same query
\* asked again gets the same answer
C16_QueryDoesNotConsume ==
    [][CmdStep("TFA:DATA:NEW?") =>
         /\ tfa' = tfa
         /\ sensors' = sensors
         /\ syst' = syst
         /\ tx'.n # tx.n
         /\ tx'.line.kind =
               IF cmd.chn = 0
               THEN (IF HasFlag(tfa'.flags, TFA_NEW_PACKET) THEN "1" ELSE "0")
               ELSE (IF HasFlag(sensors'[cmd.chn].flags, TFA_NEW_PACKET) THEN "1" ELSE "0")]_vars

\* the query has been answered with "1" for the second line in a row while
\* the reconciled packet and the reading in slot 2 are still unread
C16_Witness ==
    /\ cmd = NoCmd
    /\ tx = [n |-> 0, line |-> [kind |-> "1"]]
    /\ ~HasFlag(syst.flags, SYST_TALK)
    /\ HasFlag(tfa.flags, TFA_NEW_PACKET)
    /\ HasFlag(sensors[2].flags, TFA_NEW_PACKET)
    /\ syst.packets = 1

\* ------------------------------------------------------------ counter
\* C15 as stated: the counter never decreases, except when TFA:COUNT:RESET
\* sets it to zero
C15_CounterMonotonic ==
    [][syst'.packets >= syst.packets \/ CmdStep("TFA:COUNT:RESET")]_vars

\* C15, amended: the counter is 16 bits wide.  TFA:COUNT:RESET sets it to
\* zero, the decode step of a packet of type 0x90 adds one modulo 65536, and
\* no other step changes it: it never decreases except at a reset and at the
\* step from 65535 to 0
C15_CounterModulo ==
    [][/\ syst'.packets =
            IF CmdStep("TFA:COUNT:RESET") THEN 0
            ELSE IF DecodeStep /\ tfa_parse(tfa.packet).type = TFA_TYPE
                 THEN (syst.packets + 1) % 65536
                 ELSE syst.packets
       /\ \/ syst'.packets >= syst.packets
          \/ CmdStep("TFA:COUNT:RESET")
          \/ DecodeStep /\ syst.packets = 65535 /\ syst'.packets = 0]_vars

\* no reset came, two bursts were accepted, and the counter went from 65535
\* over 0 to 1
C15_Witness ==
    /\ ~obs.rst
    /\ pc = "idle"
    /\ obs.rec = 2
    /\ syst.packets = 1
    /\ tx.line.kind = "count"
    /\ tx.line.packets = 1

\* ------------------------------------------------------------ shared flags
\* C21: TFA_NEW_PACKETS, once set by a publication, goes away only in the
\* step that takes the private copy; a publication leaves TFA_NEW_PACKET as
\* it is; the steps of the loop and of the handlers that set or clear
\* TFA_NEW_PACKET (vote, accept, TFA:DATA?) leave TFA_NEW_PACKETS as it is;
\* no other bit of the flags byte is ever set
C21_NoLostFlagUpdate ==
    [][/\ (HasFlag(tfa.flags, TFA_NEW_PACKETS) /\ ~HasFlag(tfa'.flags, TFA_NEW_PACKETS))
            => CopyStep
       /\ PublishStep =>
            (/\ HasFlag(tfa'.flags, TFA_NEW_PACKETS)
             /\ HasFlag(tfa'.flags, TFA_NEW_PACKET) = HasFlag(tfa.flags, TFA_NEW_PACKET))
       /\ (VoteStep \/ DecodeStep \/ CmdStep("TFA:DATA?")) =>
            (HasFlag(tfa'.flags, TFA_NEW_PACKETS) = HasFlag(tfa.flags, TFA_NEW_PACKETS))
       /\ tfa'.flags \in 0 .. (TFA_NEW_PACKETS + TFA_NEW_PACKET)]_vars

\* a second burst was published while the first reconciled packet was
\* unread; TFA:DATA? has read it and the second burst still waits for the loop
C21_Witness ==
    /\ cmd = NoCmd
    /\ pc = "idle"
    /\ obs.pub = 2 /\ obs.cop = 1 /\ obs.rec = 1
    /\ HasFlag(tfa.flags, TFA_NEW_PACKETS)
    /\ ~HasFlag(tfa.flags, TFA_NEW_PACKET)
    /\ ~HasFlag(syst.flags, SYST_TALK)
    /\ tx.line.kind = "sensor"
    /\ tx.n = 0

\* ------------------------------------------------------------ liveness
\* the private copy has just been taken from the last publication
CopiedLast ==
    /\ pc = "vote"
    /\ ~HasFlag(tfa.flags, TFA_NEW_PACKETS)
    /\ <<buf, packets>> = obs.last

\* C22: with the loop iterating, a set TFA_NEW_PACKETS leads to the state in
\* which the loop has cleared it and holds the captures and the count of the
\* last publication, and the run that took them comes to its end; a copy is
\* taken only of a publication not copied before
C22_HandOffLive ==
    /\ HasFlag(tfa.flags, TFA_NEW_PACKETS) ~> CopiedLast
    /\ CopiedLast ~> (pc = "idle")
    /\ [][CopyStep => obs.cop < obs.pub]_vars

\* two bursts were published one after the other and each was copied and
\* reconciled once; nothing is left to do
C22_Witness ==
    /\ Quiescent
    /\ env.bursts = MaxCmdBursts
    /\ obs.pub = 2 /\ obs.cop = 2 /\ obs.rec = 2
    /\ syst.packets = 2
    /\ cmd = NoCmd

\* ------------------------------------------------------------ slot runs
\* a reconciled packet of sender G or H on any of the four channels the two
\* channel bits can name is about to be decoded; each slot is unlocked and
\* empty, or holds an earlier reading of its channel from G or from H
SlotLocks == {ID_NONE, ReadingG.id, ReadingH.id}

SlotsStart(n, types) ==
    \E g \in UninitFill, lock \in [1 .. SENSOR_CHANNELS -> SlotLocks],
       c \in 1 .. 4, i \in {ReadingG.id, ReadingH.id}, talk \in {0, SYST_TALK},
       ty \in types :
        /\ StartWith([InitReceiver(g) EXCEPT
                         !.tfa.packet = Encode([ReadingG EXCEPT !.channel = c, !.id = i,
                                                               !.type = ty]),
                         !.tfa.flags = TFA_NEW_PACKET])
        /\ Sampled(1, TIMER_MAX)
        /\ sensors = [k \in 1 .. SENSOR_CHANNELS |->
                        IF lock[k] = ID_NONE
                        THEN [id |-> ID_NONE, channel |-> g, temp |-> g, rh |-> g,
                              type |-> g, flags |-> 0]
                        ELSE tfa_parse(Encode([ReadingH EXCEPT !.channel = k,
                                                               !.id = lock[k]]))]
        /\ syst = [packets |-> n, flags |-> talk + SYST_HEAD]
        /\ pc = "decode"
        /\ buf = NoBuf
        /\ packets = 0
        /\ cmd = NoCmd
        /\ tx = NoTx
        /\ obs = [pub |-> 1, cop |-> 1, rec |-> 1, last |-> <<>>, rst |-> FALSE]
        /\ env = Transmitter(ReadingG, 0, 0)

InitSlots == SlotsStart(0, {TFA_TYPE})

SpecSlots == InitSlots /\ [][Decode]_vars

\* the same with a sensor of another type as well, the counter at either end
\* of its range, and the command lines about the counter and the format
InitAccept == \E n \in CountStart : SlotsStart(n, {TFA_TYPE, ReadingU.type})

NextAccept == Decode \/ SerialRxCount \/ CmdHead \/ CmdCount \/ CmdCountReset

SpecAccept == InitAccept /\ [][NextAccept]_vars

\* C23: decoding a valid reading leaves every slot but that of the reading's
\* channel as it is; with the slot locked to another identity, or with
\* channel 4, no slot changes at all; in each case the reading is counted
\* and the only line sent is the report of the reading in talk mode
C23_SlotIsolation ==
    [][(DecodeStep /\ tfa_parse(tfa.packet).type = TFA_TYPE) =>
         LET r == tfa_parse(tfa.packet)
             conflict == /\ r.channel \in 1 .. SENSOR_CHANNELS
                         /\ sensors[r.channel].id \notin {ID_NONE, r.id}
         IN  /\ r.channel \in 1 .. 4
             /\ \A c \in 1 .. SENSOR_CHANNELS : c # r.channel => sensors'[c] = sensors[c]
             /\ (conflict \/ r.channel > SENSOR_CHANNELS) => sensors' = sensors
             /\ (r.channel \in 1 .. SENSOR_CHANNELS /\ ~conflict) => sensors'[r.channel] = r
             /\ syst'.packets = syst.packets + 1
             /\ tx' = IF HasFlag(syst.flags, SYST_TALK)
                      THEN [n |-> 1 - tx.n, line |-> tfa_print_sensor(syst, r)]
                      ELSE tx]_vars

\* a reading of G on channel 4 has been decoded, counted and reported; the
\* three slots hold the earlier readings of H
C23_Witness ==
    /\ pc = "idle"
    /\ tfa_parse(tfa.packet).channel = 4
    /\ tfa_parse(tfa.packet).id = ReadingG.id
    /\ syst.packets = 1
    /\ tx.line.kind = "sensor" /\ tx.line.chn = 4
    /\ \A c \in 1 .. SENSOR_CHANNELS :
          sensors[c] = tfa_parse(Encode([ReadingH EXCEPT !.channel = c]))

\* ------------------------------------------------------------ start pulse
\* a pulse of start length has ended
StartStep == TFA_IS_START(env'.d) /\ ~TFA_IS_GAP(env'.d)

\* C24 as stated: a start pulse sets the countdown to 36, leaves the
\* repetition index as it is and leaves the slot at the index with all five
\* bytes zero
C24_StartClearsSlot ==
    [][StartStep =>
         /\ tfa_buf_bit' = TFA_BITS
         /\ tfa_buf_packet' = tfa_buf_packet
         /\ tfa_buf_packet \in SlotIdx => tfa_buf'[tfa_buf_packet] = FillPacket(0)]_vars

\* C24, amended: a start pulse sets the countdown to 36 and leaves the
\* repetition index as it is; of the slot at the index (if the index is below
\* 7) it zeroes byte 4 only, and every other byte of every slot keeps its
\* value; this is so for a start pulse in the middle of a repetition as well
C24_StartClearsLastByte ==
    [][StartStep =>
         /\ tfa_buf_bit' = TFA_BITS
         /\ tfa_buf_packet' = tfa_buf_packet
         /\ tfa_buf' = IF tfa_buf_packet < TFA_PACKETS
                       THEN [tfa_buf EXCEPT ![tfa_buf_packet][TFA_BUF_BYTES - 1] = 0]
                       ELSE tfa_buf
         /\ tfa' = tfa]_vars

\* a start pulse came 20 data pulses into the seventh repetition, sent by G:
\* byte 4 of the slot is zero, byte 3 holds the bits of the broken-off
\* repetition and byte 0 still what the earlier burst left
C24_Witness ==
    /\ env.stray = 1
    /\ env.k = 20
    /\ env.d = TicksOf(TFA_T_START_NOM_US)
    /\ tfa_buf_bit = TFA_BITS
    /\ tfa_buf_packet = TFA_PACKETS - 1
    /\ tfa_buf[TFA_PACKETS - 1][TFA_BUF_BYTES - 1] = 0
    /\ tfa_buf[TFA_PACKETS - 1][3] = PacketG[3]
    /\ tfa_buf[TFA_PACKETS - 1][0] = 255

\* ------------------------------------------------------------ accepted packets
\* C25: the decode step of a packet of type 0x90 adds one to the counter (it
\* is a uint16_t: one past 65535 is 0), whether a slot took the reading, a
\* lock kept it out or its channel is 4; the counter changes in no other step
\* but that of TFA:COUNT:RESET; in talk mode the step sends one line, the
\* report of the reading, and clears TFA_NEW_PACKET; with talk mode off it
\* sends nothing and leaves the flags
C25_CountsEveryValidPacket ==
    [][/\ (DecodeStep /\ tfa_parse(tfa.packet).type = TFA_TYPE) =>
            LET r == tfa_parse(tfa.packet)
            IN  /\ syst'.packets = (syst.packets + 1) % 65536
                /\ IF HasFlag(syst.flags, SYST_TALK)
                   THEN /\ tx' = [n |-> 1 - tx.n, line |-> tfa_print_sensor(syst, r)]
                        /\ ~HasFlag(tfa'.flags, TFA_NEW_PACKET)
                   ELSE /\ tx' = tx
                        /\ tfa'.flags = tfa.flags
       /\ syst'.packets # syst.packets =>
            \/ DecodeStep /\ tfa_parse(tfa.packet).type = TFA_TYPE
            \/ CmdStep("TFA:COUNT:RESET")]_vars

\* a reading of G on channel 2 came while the slot was locked to H: the slot
\* still holds the reading of H, the counter went from 0 to 1, the reading
\* was reported and TFA_NEW_PACKET is clear
C25_Witness ==
    /\ pc = "idle"
    /\ ~obs.rst
    /\ tfa.packet = Encode(ReadingG)
    /\ sensors[2] = tfa_parse(Encode([ReadingH EXCEPT !.channel = 2]))
    /\ syst.packets = 1
    /\ tx = [n |-> 1, line |-> tfa_print_sensor(syst, tfa_parse(tfa.packet))]
    /\ ~HasFlag(tfa.flags, TFA_NEW_PACKET)

\* ------------------------------------------------------- new flag of a slot
\* the slot of channel c holds unread data
SlotNew(chans, c) == HasFlag(chans[c].flags, TFA_NEW_PACKET)

\* the decode step stores the reading into the slot of channel c
StoredInto(c) ==
    LET r == tfa_parse(tfa.packet)
    IN  /\ DecodeStep
        /\ r.type = TFA_TYPE
        /\ r.channel = c
        /\ sensors[c].id \in {ID_NONE, r.id}

\* C26: the new flag of every slot is clear after startup; the flag of slot c
\* is set by every decode step that stores a reading into slot c, in talk mode
\* or not, and goes from clear to set in no other step; it is cleared by
\* every TFA:DATA? c and goes from set to clear in no other step; TFA:DATA?
\* of another channel or without a channel, TFA:DATA:NEW? and TFA:SYNC leave
\* the flags of slot c as they are; every TFA:DATA?, with a channel or
\* without, clears TFA_NEW_PACKET of the TTFA
C26_SlotNewFlag ==
    /\ \A c \in 1 .. SENSOR_CHANNELS : ~SlotNew(sensors, c)
    /\ [][/\ \A c \in 1 .. SENSOR_CHANNELS :
               /\ StoredInto(c) => SlotNew(sensors', c)
               /\ (~SlotNew(sensors, c) /\ SlotNew(sensors', c)) => StoredInto(c)
               /\ (CmdStep("TFA:DATA?") /\ cmd.chn = c) => ~SlotNew(sensors', c)
               /\ (SlotNew(sensors, c) /\ ~SlotNew(sensors', c)) =>
                       (CmdStep("TFA:DATA?") /\ cmd.chn = c)
               /\ (\/ CmdStep("TFA:DATA?") /\ cmd.chn # c
                   \/ CmdStep("TFA:DATA:NEW?")
                   \/ CmdStep("TFA:SYNC")) => sensors'[c].flags = sensors[c].flags
          /\ CmdStep("TFA:DATA?") => ~HasFlag(tfa'.flags, TFA_NEW_PACKET)]_vars

\* the slot of channel 2 holds an unread reading; the last line sent is the
\* answer to a read of an empty slot of another channel: the flag of slot 2
\* is still set and TFA_NEW_PACKET of the TTFA is clear
C26_Witness ==
    /\ cmd = NoCmd
    /\ pc = "idle"
    /\ SlotNew(sensors, 2)
    /\ sensors[2].id = ReadingG.id
    /\ tx.line.kind = "sensor"
    /\ tx.line.id = ID_NONE
    /\ ~HasFlag(tfa.flags, TFA_NEW_PACKET)
    /\ ~HasFlag(syst.flags, SYST_TALK)

====
